---- MODULE Spec2Model ----
(***************************************************************************)
(* Model of monai/csrc/filtering/bilateral/bilateralfilter_cpu.cpp: the    *)
(* Indexer mixed-radix iterator and the BilateralFilterCpu kernel.         *)
(*                                                                         *)
(* A C++ float is modelled as a binary floating-point number of reduced    *)
(* precision: an integer n stands for n / 2^FracBits, and every arithmetic *)
(* result is rounded to nearest (ties to even) to MantBits significant     *)
(* bits.  The rounding is kept because the kernel's results are quotients  *)
(* of rounded sums.                                                        *)
(***************************************************************************)
EXTENDS Integers, Sequences, FiniteSets, TLC

\* ---------------------------------------------------------------- bounds
MaxElements == 4
MaxSpatialDims == 2
MantBits == 5
IdxMaxDims == 3
IdxMaxSize == 3
MaxCalls == 6

\* ------------------------------------------------------- float arithmetic
FracBits == 4

RECURSIVE Pow2(_)
Pow2(n) == IF n <= 0 THEN 1 ELSE 2 * Pow2(n - 1)

One == Pow2(FracBits)

RECURSIVE BitLen(_)
BitLen(n) == IF n <= 0 THEN 0 ELSE 1 + BitLen(n \div 2)

Abs(x) == IF x < 0 THEN -x ELSE x
Sign(x) == IF x < 0 THEN -1 ELSE 1
Min(x, y) == IF x < y THEN x ELSE y
Max(x, y) == IF x < y THEN y ELSE x

\* The float nearest to num/den units (num >= 0, den > 0), ties to even.
RoundMag(num, den) ==
    LET q == num \div den
        ulp == IF q < Pow2(MantBits) THEN 1 ELSE Pow2(BitLen(q) - MantBits)
        d == den * ulp
        t == num \div d
        r == num - t * d
        up == (2 * r > d) \/ (2 * r = d /\ t % 2 = 1)
    IN  (IF up THEN t + 1 ELSE t) * ulp

RoundQ(num, den) == Sign(num) * RoundMag(Abs(num), den)

FAdd(x, y) == RoundQ(x + y, 1)
FSub(x, y) == RoundQ(x - y, 1)
FMul(x, y) == RoundQ(x * y, One)
\* x / y; a zero divisor gives an infinity or a NaN, both modelled by NotFinite
NotFinite == 0 - Pow2(30)
FDiv(x, y) == IF y = 0 THEN NotFinite ELSE RoundQ(Sign(y) * x * One, Abs(y))
\* int -> float conversion
ToFloat(i) == RoundQ(i * One, 1)
\* ceil() followed by the conversion to int
CeilInt(x) == 0 - ((0 - x) \div One)
\* float -> int conversion (truncation toward zero)
TruncInt(x) == Sign(x) * (Abs(x) \div One)

\* exp(n/16) in units of 1/16, for n = -55 .. 32
ExpTable ==
    << 1, 1, 1, 1, 1, 1, 1, 1, 1, 1, 1, 1, 1, 1, 1, 1, 1, 1, 2, 2, 2, 2,
       2, 2, 2, 2, 3, 3, 3, 3, 3, 4, 4, 4, 4, 5, 5, 5, 6, 6, 6, 7, 7, 8, 8,
       9, 9, 10, 10, 11, 12, 12, 13, 14, 15, 16, 17, 18, 19, 21, 22, 23, 25,
       26, 28, 30, 32, 34, 36, 38, 41, 43, 46, 49, 52, 56, 59, 63, 67, 72,
       76, 81, 86, 92, 98, 104, 111, 118 >>

ExpMin == 0 - 55

\* exp(x): underflows to 0 below the table
Exp(x) ==
    IF x < ExpMin THEN 0 ELSE RoundQ(ExpTable[x - ExpMin + 1], 1)

\* ----------------------------------------------------------------- Indexer
RECURSIVE Zeros(_)
Zeros(n) == IF n <= 0 THEN << >> ELSE Append(Zeros(n - 1), 0)

\* Indexer(int dimensions, int64_t* sizes)
Indexer(dimensions, szs) ==
    [m_dimensions |-> dimensions, m_sizes |-> szs, m_index |-> Zeros(dimensions)]

\* Variant of IncFrom: an axis that reaches its bound is not reset to 0.
RECURSIVE IncFromNoReset(_, _)
IncFromNoReset(ix, i) ==
    IF i > ix.m_dimensions
    THEN [ix |-> ix, ret |-> FALSE]
    ELSE LET bumped == [ix EXCEPT !.m_index[i] = @ + 1]
         IN  IF bumped.m_index[i] < ix.m_sizes[i]
             THEN [ix |-> bumped, ret |-> TRUE]
             ELSE IncFromNoReset(bumped, i + 1)

\* Variant of IncFrom: the bound is compared with <= instead of <.
RECURSIVE IncFromInclusive(_, _)
IncFromInclusive(ix, i) ==
    IF i > ix.m_dimensions
    THEN [ix |-> ix, ret |-> FALSE]
    ELSE LET bumped == [ix EXCEPT !.m_index[i] = @ + 1]
         IN  IF bumped.m_index[i] <= ix.m_sizes[i]
             THEN [ix |-> bumped, ret |-> TRUE]
             ELSE IncFromInclusive([bumped EXCEPT !.m_index[i] = 0], i + 1)

\* The for loop of operator++(int), from axis i on.
RECURSIVE IncFrom(_, _)
IncFrom(ix, i) ==
    IF i > ix.m_dimensions
    THEN [ix |-> ix, ret |-> FALSE]
    ELSE LET bumped == [ix EXCEPT !.m_index[i] = @ + 1]
         IN  IF bumped.m_index[i] < ix.m_sizes[i]
             THEN [ix |-> bumped, ret |-> TRUE]
             ELSE IncFrom([bumped EXCEPT !.m_index[i] = 0], i + 1)

\* bool operator++(int)
IndexerInc(ix) == IncFrom(ix, 1)

\* int& operator[](int dimensionIndex), 0-based in the source
IndexerAt(ix, dimensionIndex) == ix.m_index[dimensionIndex + 1]

RECURSIVE Product(_)
Product(s) == IF Len(s) = 0 THEN 1 ELSE Head(s) * Product(Tail(s))

RECURSIVE SeqsOf(_, _)
SeqsOf(S, n) ==
    IF n = 0 THEN { << >> }
    ELSE { Append(s, x) : s \in SeqsOf(S, n - 1), x \in S }

\* ------------------------------------------------------------ input tensor
RECURSIVE SumSeq(_)
SumSeq(s) == IF Len(s) = 0 THEN 0 ELSE Head(s) + SumSeq(Tail(s))

\* Row-major strides of a shape.
ContiguousStrides(sz) ==
    [i \in 1..Len(sz) |-> Product(SubSeq(sz, i + 1, Len(sz)))]

\* Dense layout with the channel axis innermost (a permuted tensor).
ChannelsLastStrides(sz) ==
    [i \in 1..Len(sz) |->
        IF i = 2 THEN 1
        ELSE sz[2] * Product(SubSeq(sz, Max(i, 2) + 1, Len(sz)))]

\* Every second element of the last axis of a row-major tensor (x[..., ::2]).
SlicedStrides(sz) ==
    [i \in 1..Len(sz) |->
        IF i = Len(sz) THEN 2
        ELSE 2 * Product(SubSeq(sz, i + 1, Len(sz)))]

LayoutStrides(layout, sz) ==
    CASE layout = "contiguous" -> ContiguousStrides(sz)
      [] layout = "channels_last" -> ChannelsLastStrides(sz)
      [] layout = "sliced" -> SlicedStrides(sz)

\* Number of floats of the storage the input views.
StorageSize(layout, sz) ==
    IF layout = "sliced" THEN 2 * Product(sz) ELSE Product(sz)

\* input.size(0), input.size(1), input.dim() - 2, input.sizes().data() + 2
BatchCount(sz) == sz[1]
ChannelCount(sz) == sz[2]
SpatialDimensionCount(sz) == Len(sz) - 2
SpatialDimensionSizes(sz) == SubSeq(sz, 3, Len(sz))
\* input.stride(0), input.stride(1), input.strides().data() + 2
BatchStride(str) == str[1]
ChannelStride(str) == str[2]
SpatialDimensionStrides(str) == SubSeq(str, 3, Len(str))

\* TensorImpl::is_non_overlapping_and_dense(): the axes of size >= 2, sorted
\* by stride, have the strides of a packed layout.
IsNonOverlappingAndDense(sz, str) ==
    LET big == {i \in 1..Len(sz) : sz[i] >= 2}
        Below(i) == {j \in big : str[j] < str[i]}
        RECURSIVE ProdOver(_)
        ProdOver(S) == IF S = {} THEN 1
                       ELSE LET j == CHOOSE j \in S : TRUE
                            IN  sz[j] * ProdOver(S \ {j})
    IN  /\ \A i \in big : str[i] = ProdOver(Below(i))
        /\ \A i, j \in big : i # j => str[i] # str[j]

\* torch::zeros_like(input): the strides are kept when the input is
\* non-overlapping and dense, and are those of a packed tensor otherwise.
ZerosLikeStrides(sz, str) ==
    IF IsNonOverlappingAndDense(sz, str) THEN str ELSE ContiguousStrides(sz)

\* Offset of logical element (bb, c, x) under strides str (all 0-based).
ElemOffset(str, bb, c, x) ==
    bb * str[1] + c * str[2] + SumSeq([i \in 1..Len(x) |-> x[i] * str[i + 2]])

\* ---------------------------------------------------------- input domains
Layouts == {"contiguous", "channels_last", "sliced"}
\* float values of the input elements: 0, 1, 2.5, -1.5
Vals == << 0, 16, 40, 0 - 24 >>
DataSeeds == {0, 2}
DataSteps == {0, 1}
\* spatialSigma 0.25, 0.5, 1 (windowSize 1, 2, 3); colorSigma 0.5, 1
SpatialSigmas == {4, 8, 16}
ColorSigmas == {8, 16}
\* contents of a float buffer that was allocated and not yet initialised
Indeterminate == {0, 24}

RECURSIVE ShapesOf(_)
ShapesOf(d) ==
    IF d = 0 THEN { << >> }
    ELSE { Append(s, n) : s \in ShapesOf(d - 1), n \in 1..MaxElements }

\* Sizes (batch, channel, spatial axes) of the tensors of at most MaxElements
\* elements with 1 .. MaxSpatialDims spatial axes.
TensorShapes ==
    UNION { { s \in ShapesOf(d + 2) : Product(s) <= MaxElements } :
              d \in 1..MaxSpatialDims }

InputData(layout, sz, seed, step) ==
    [o \in 0..(StorageSize(layout, sz) - 1) |->
        Vals[((seed + step * o) % Len(Vals)) + 1]]

\* -------------------------------------------------------------------- state
VARIABLES
    cfg,                \* the layout and data pattern the input was built from
    sizes, strides,     \* input.sizes(), input.strides()
    inputData,          \* the storage behind input.data_ptr<float>()
    spatialSigma, colorSigma,
    pc,                 \* position in BilateralFilterCpu
    outStrides,         \* output.strides()
    outputData,         \* the storage behind output.data_ptr<float>()
    written,            \* how often each output location was stored to
    stray,              \* offsets stored to outside the output storage
    windowSize, halfWindowSize, spatialExpConstant, colorExpConstant,
    kernelSize, gaussianKernel,
    valueSum, weightSum,
    b, homeIndex, homeOffset, kernelIndex,
    heap,               \* live blocks obtained with new[] or zeros_like, per owner
    win,                \* what the window loop of the current home element did
    it, itpc, visited, rets   \* a free-standing Indexer and its driver loop

filterVars == << cfg, sizes, strides, inputData, spatialSigma, colorSigma, pc,
                 outStrides, outputData, written, stray, windowSize,
                 halfWindowSize, spatialExpConstant, colorExpConstant,
                 kernelSize, gaussianKernel, valueSum, weightSum, b, homeIndex,
                 homeOffset, kernelIndex, heap, win >>
indexerVars == << it, itpc, visited, rets >>
vars == << filterVars, indexerVars >>

Owners == {"output", "kernelSize", "gaussianKernel", "valueSum",
           "homeIndex", "kernelIndex"}

NoIndexer == Indexer(0, << >>)
NoWin == [steps |-> 0, raw |-> << >>, nbr |-> << >>, reads |-> {},
          selfWeight |-> 0 - 1, selfOffset |-> 0 - 1, minWeight |-> 0,
          lo |-> << >>, hi |-> << >>, out |-> << >>, done |-> FALSE]

\* ------------------------------------------------- BilateralFilterCpu steps
\* int windowSize = ceil(3 * spatialSigma)
WindowSize(sigma) == CeilInt(FMul(ToFloat(3), sigma))
\* int halfWindowSize = 0.5f * windowSize
HalfWindowSize(ws) == TruncInt(FMul(One \div 2, ToFloat(ws)))
\* -1.0f / (2 * sigma * sigma)
ExpConstant(sigma) == FDiv(0 - One, FMul(FMul(ToFloat(2), sigma), sigma))
\* the exponent handed to exp() for gaussianKernel[i]
GaussianArg(i, half, sec) == FMul(ToFloat(i - half), sec)
\* float* gaussianKernel, filled for i = 0 .. windowSize-1 (kept 1-based)
GaussianKernel(ws, half, sec) ==
    [i \in 1..ws |-> Exp(GaussianArg(i - 1, half, sec))]

\* A read of inputData; outside the storage the value is indeterminate.
ReadInput(o) == IF o \in DOMAIN inputData THEN inputData[o] ELSE 0

\* Variants of Clamp: one of the two bounds is not applied.
ClampNoLowerBound(neighbourIndex, size) == Min(size - 1, neighbourIndex)
ClampNoUpperBound(neighbourIndex, size) == Max(0, neighbourIndex)

\* std::min(size - 1, std::max(0, neighbourIndex))
Clamp(neighbourIndex, size) == Min(size - 1, Max(0, neighbourIndex))

\* homeOffset of the home element homeIndex in batch bb
HomeOffset(bb, hix) ==
    bb * BatchStride(strides)
      + SumSeq([i \in 1..SpatialDimensionCount(sizes) |->
                  IndexerAt(hix, i - 1) * SpatialDimensionStrides(strides)[i]])

NeighbourIndex(hix, kix, half) ==
    [i \in 1..SpatialDimensionCount(sizes) |->
        IndexerAt(hix, i - 1) + IndexerAt(kix, i - 1) - half]

NeighbourIndexClamped(hix, kix, half) ==
    [i \in 1..SpatialDimensionCount(sizes) |->
        Clamp(NeighbourIndex(hix, kix, half)[i], SpatialDimensionSizes(sizes)[i])]

NeighbourOffset(bb, hix, kix, half) ==
    bb * BatchStride(strides)
      + SumSeq([i \in 1..SpatialDimensionCount(sizes) |->
                  NeighbourIndexClamped(hix, kix, half)[i]
                    * SpatialDimensionStrides(strides)[i]])

RECURSIVE ColorDistanceSquared(_, _, _)
ColorDistanceSquared(ho, no, n) ==
    IF n = 0 THEN 0
    ELSE LET i == n - 1
             diff == FSub(ReadInput(ho + i * ChannelStride(strides)),
                          ReadInput(no + i * ChannelStride(strides)))
         IN  FAdd(ColorDistanceSquared(ho, no, n - 1), FMul(diff, diff))

\* Variant of SpatialWeight: the running product starts at 0.
RECURSIVE SpatialWeightFromZero(_, _, _)
SpatialWeightFromZero(kix, gk, n) ==
    IF n = 0 THEN 0
    ELSE FMul(SpatialWeightFromZero(kix, gk, n - 1),
              gk[IndexerAt(kix, n - 1) + 1])

RECURSIVE SpatialWeight(_, _, _)
SpatialWeight(kix, gk, n) ==
    IF n = 0 THEN One
    ELSE FMul(SpatialWeight(kix, gk, n - 1), gk[IndexerAt(kix, n - 1) + 1])

TotalWeight(ho, no, kix, gk, cec) ==
    LET colorDistanceSquared == ColorDistanceSquared(ho, no, ChannelCount(sizes))
        spatialWeight == SpatialWeight(kix, gk, SpatialDimensionCount(sizes))
        colorWeight == Exp(FMul(colorDistanceSquared, cec))
    IN  FMul(spatialWeight, colorWeight)

\* Variants of ZeroAggregates: nothing is zeroed; the first channel is skipped.
KeepAggregates(vs, channelCount) == vs
ZeroAggregatesSkipFirst(vs, channelCount) ==
    [i \in 1..channelCount |-> IF i = 1 THEN vs[i] ELSE 0]

\* The loop that zeroes valueSum.
ZeroAggregates(vs, channelCount) == [i \in 1..channelCount |-> 0]

IndexerParked ==
    /\ it = NoIndexer
    /\ itpc = "none"
    /\ visited = << >>
    /\ rets = << >>

\* The call BilateralFilterCpu(input, spatialSigma, colorSigma) is entered.
Init ==
    /\ \E shape \in TensorShapes, layout \in Layouts,
          seed \in DataSeeds, step \in DataSteps :
          /\ cfg = [layout |-> layout, seed |-> seed, step |-> step]
          /\ sizes = shape
          /\ strides = LayoutStrides(layout, shape)
          /\ inputData = InputData(layout, shape, seed, step)
    /\ spatialSigma \in SpatialSigmas
    /\ colorSigma \in ColorSigmas
    /\ pc = "start"
    /\ outStrides = << >>
    /\ outputData = << >>
    /\ written = << >>
    /\ stray = {}
    /\ windowSize = 0
    /\ halfWindowSize = 0
    /\ spatialExpConstant = 0
    /\ colorExpConstant = 0
    /\ kernelSize = << >>
    /\ gaussianKernel = << >>
    /\ valueSum = << >>
    /\ weightSum = 0
    /\ b = 0
    /\ homeIndex = NoIndexer
    /\ homeOffset = 0
    /\ kernelIndex = NoIndexer
    /\ heap = [o \in Owners |-> 0]
    /\ win = NoWin
    /\ IndexerParked

\* Lines 60-106: the output tensor, the constants, the three new[] buffers,
\* b = 0.
Start ==
    /\ pc = "start"
    /\ outStrides' = ZerosLikeStrides(sizes, strides)
    /\ outputData' = [o \in 0..(Product(sizes) - 1) |-> 0]
    /\ written' = [o \in 0..(Product(sizes) - 1) |-> 0]
    /\ windowSize' = WindowSize(spatialSigma)
    /\ halfWindowSize' = HalfWindowSize(windowSize')
    /\ spatialExpConstant' = ExpConstant(spatialSigma)
    /\ colorExpConstant' = ExpConstant(colorSigma)
    /\ kernelSize' = [i \in 1..SpatialDimensionCount(sizes) |-> windowSize']
    /\ gaussianKernel' =
          GaussianKernel(windowSize', halfWindowSize', spatialExpConstant')
    /\ \E g \in Indeterminate :
          valueSum' = [i \in 1..ChannelCount(sizes) |-> g]
    /\ weightSum' = 0
    /\ b' = 0
    /\ heap' = [heap EXCEPT !["output"] = @ + 1, !["kernelSize"] = @ + 1,
                            !["gaussianKernel"] = @ + 1, !["valueSum"] = @ + 1]
    /\ pc' = "batch"
    /\ UNCHANGED << cfg, sizes, strides, inputData, spatialSigma, colorSigma,
                    stray, homeIndex, homeOffset, kernelIndex, win,
                    indexerVars >>

\* Lines 106-111: b < batchCount, a new homeIndex for batch b.
BeginBatch ==
    /\ pc = "batch"
    /\ b < BatchCount(sizes)
    /\ homeIndex' = Indexer(SpatialDimensionCount(sizes),
                            SpatialDimensionSizes(sizes))
    /\ heap' = [heap EXCEPT !["homeIndex"] = @ + 1]
    /\ pc' = "home"
    /\ UNCHANGED << cfg, sizes, strides, inputData, spatialSigma, colorSigma,
                    outStrides, outputData, written, stray, windowSize,
                    halfWindowSize, spatialExpConstant, colorExpConstant,
                    kernelSize, gaussianKernel, valueSum, weightSum, b,
                    homeOffset, kernelIndex, win, indexerVars >>

\* Lines 114-131: the home offset, the zeroed aggregates, a new kernelIndex.
BeginHome ==
    /\ pc = "home"
    /\ homeOffset' = HomeOffset(b, homeIndex)
    /\ valueSum' = ZeroAggregates(valueSum, ChannelCount(sizes))
    /\ weightSum' = 0
    /\ kernelIndex' = Indexer(SpatialDimensionCount(sizes), kernelSize)
    /\ heap' = [heap EXCEPT !["kernelIndex"] = @ + 1]
    /\ win' = NoWin
    /\ pc' = "window"
    /\ UNCHANGED << cfg, sizes, strides, inputData, spatialSigma, colorSigma,
                    outStrides, outputData, written, stray, windowSize,
                    halfWindowSize, spatialExpConstant, colorExpConstant,
                    kernelSize, gaussianKernel, b, homeIndex, indexerVars >>

\* Lines 132-175: one pass of the body of the window loop, then kernelIndex++.
WindowStep ==
    /\ pc = "window"
    /\ \E neighbourOffset \in
             {NeighbourOffset(b, homeIndex, kernelIndex, halfWindowSize)} :
       \E totalWeight \in
             {TotalWeight(homeOffset, neighbourOffset, kernelIndex,
                          gaussianKernel, colorExpConstant)} :
       LET cs == ChannelStride(strides)
           cc == ChannelCount(sizes)
           nv == [i \in 1..cc |-> ReadInput(neighbourOffset + (i - 1) * cs)]
           atCentre == \A i \in 1..kernelIndex.m_dimensions :
                          kernelIndex.m_index[i] = halfWindowSize
           next == IndexerInc(kernelIndex)
       IN  /\ valueSum' =
                [i \in 1..cc |-> FAdd(valueSum[i], FMul(nv[i], totalWeight))]
           /\ weightSum' = FAdd(weightSum, totalWeight)
           /\ kernelIndex' = next.ix
           /\ pc' = IF next.ret THEN "window" ELSE "write"
           /\ win' =
                [win EXCEPT
                   !.steps = @ + 1,
                   !.raw = NeighbourIndex(homeIndex, kernelIndex, halfWindowSize),
                   !.nbr = NeighbourIndexClamped(homeIndex, kernelIndex,
                                                 halfWindowSize),
                   !.reads = {homeOffset + i * cs : i \in 0..(cc - 1)}
                               \cup {neighbourOffset + i * cs : i \in 0..(cc - 1)},
                   !.selfWeight = IF atCentre THEN totalWeight ELSE @,
                   !.selfOffset = IF atCentre THEN neighbourOffset ELSE @,
                   !.minWeight = IF win.steps = 0 THEN totalWeight
                                 ELSE Min(@, totalWeight),
                   !.lo = IF win.steps = 0 THEN nv
                          ELSE [i \in 1..cc |-> Min(@[i], nv[i])],
                   !.hi = IF win.steps = 0 THEN nv
                          ELSE [i \in 1..cc |-> Max(@[i], nv[i])]]
    /\ UNCHANGED << cfg, sizes, strides, inputData, spatialSigma, colorSigma,
                    outStrides, outputData, written, stray, windowSize,
                    halfWindowSize, spatialExpConstant, colorExpConstant,
                    kernelSize, gaussianKernel, b, homeIndex, homeOffset,
                    heap, indexerVars >>

\* The offsets the stores of lines 178-181 go to.
StoreOffsets ==
    [i \in 1..ChannelCount(sizes) |-> homeOffset + (i - 1) * ChannelStride(strides)]

RECURSIVE StoreAll(_, _, _)
StoreAll(od, vals, n) ==
    IF n = 0 THEN od
    ELSE LET prev == StoreAll(od, vals, n - 1)
         IN  IF StoreOffsets[n] \in DOMAIN od
             THEN [prev EXCEPT ![StoreOffsets[n]] = vals[n]]
             ELSE prev

RECURSIVE CountAll(_, _)
CountAll(wr, n) ==
    IF n = 0 THEN wr
    ELSE LET prev == CountAll(wr, n - 1)
         IN  IF StoreOffsets[n] \in DOMAIN wr
             THEN [prev EXCEPT ![StoreOffsets[n]] = @ + 1]
             ELSE prev

StrayOffsets ==
    {StoreOffsets[i] : i \in 1..ChannelCount(sizes)} \ DOMAIN outputData

\* Lines 178-183: the normalised values are stored, kernelIndex goes out of
\* scope, then homeIndex++ decides whether the batch has another home element
\* (b++ when it has none).
\* A store outside the output storage is undefined: here the run goes on.
WriteOutput ==
    /\ pc = "write"
    /\ LET cc == ChannelCount(sizes)
           vals == [i \in 1..cc |-> FDiv(valueSum[i], weightSum)]
           next == IndexerInc(homeIndex)
       IN  /\ outputData' = StoreAll(outputData, vals, cc)
           /\ written' = CountAll(written, cc)
           /\ stray' = stray \cup StrayOffsets
           /\ win' = [win EXCEPT !.out = vals, !.done = TRUE]
           /\ homeIndex' = next.ix
           /\ pc' = IF next.ret THEN "home" ELSE "batch"
           /\ b' = IF next.ret THEN b ELSE b + 1
    /\ UNCHANGED << cfg, sizes, strides, inputData, spatialSigma, colorSigma,
                    outStrides, windowSize, halfWindowSize, spatialExpConstant,
                    colorExpConstant, kernelSize, gaussianKernel, valueSum,
                    weightSum, homeOffset, kernelIndex, heap, indexerVars >>

\* The other outcome of a store outside the output storage: the process dies.
StrayStoreCrash ==
    /\ pc = "write"
    /\ StrayOffsets # {}
    /\ stray' = stray \cup StrayOffsets
    /\ pc' = "crashed"
    /\ UNCHANGED << cfg, sizes, strides, inputData, spatialSigma, colorSigma,
                    outStrides, outputData, written, windowSize, halfWindowSize,
                    spatialExpConstant, colorExpConstant, kernelSize,
                    gaussianKernel, valueSum, weightSum, b, homeIndex,
                    homeOffset, kernelIndex, heap, win, indexerVars >>

\* Lines 106 and 186: the batch loop ends and output is returned.
Return ==
    /\ pc = "batch"
    /\ b >= BatchCount(sizes)
    /\ pc' = "done"
    /\ UNCHANGED << cfg, sizes, strides, inputData, spatialSigma, colorSigma,
                    outStrides, outputData, written, stray, windowSize,
                    halfWindowSize, spatialExpConstant, colorExpConstant,
                    kernelSize, gaussianKernel, valueSum, weightSum, b,
                    homeIndex, homeOffset, kernelIndex, heap, win,
                    indexerVars >>

Next ==
    \/ Start
    \/ BeginBatch
    \/ BeginHome
    \/ WindowStep
    \/ WriteOutput
    \/ StrayStoreCrash
    \/ Return

Spec == Init /\ [][Next]_vars

\* ------------------------------------------- Indexer driven by a do-while
FilterParked ==
    /\ cfg = [layout |-> "none", seed |-> 0, step |-> 0]
    /\ sizes = << >>
    /\ strides = << >>
    /\ inputData = << >>
    /\ spatialSigma = 0
    /\ colorSigma = 0
    /\ pc = "none"
    /\ outStrides = << >>
    /\ outputData = << >>
    /\ written = << >>
    /\ stray = {}
    /\ windowSize = 0
    /\ halfWindowSize = 0
    /\ spatialExpConstant = 0
    /\ colorExpConstant = 0
    /\ kernelSize = << >>
    /\ gaussianKernel = << >>
    /\ valueSum = << >>
    /\ weightSum = 0
    /\ b = 0
    /\ homeIndex = NoIndexer
    /\ homeOffset = 0
    /\ kernelIndex = NoIndexer
    /\ heap = [o \in Owners |-> 0]
    /\ win = NoWin

\* Indexer index = Indexer(d, sizes), about to enter do { body } while (index++).
IndexerInit ==
    /\ FilterParked
    /\ \E d \in 1..IdxMaxDims :
          \E sz \in SeqsOf(1..IdxMaxSize, d) : it = Indexer(d, sz)
    /\ itpc = "body"
    /\ visited = << >>
    /\ rets = << >>

\* The body of the do-while runs for the current coordinate.
LoopBody ==
    /\ itpc = "body"
    /\ visited' = Append(visited, it.m_index)
    /\ itpc' = "cond"
    /\ UNCHANGED << it, rets, filterVars >>

\* while (index++): the loop goes on when operator++ returns true.
LoopCond ==
    /\ itpc = "cond"
    /\ LET next == IndexerInc(it)
       IN  /\ it' = next.ix
           /\ rets' = Append(rets, next.ret)
           /\ itpc' = IF next.ret THEN "body" ELSE "exited"
    /\ UNCHANGED << visited, filterVars >>

\* A caller applies operator++ again to an Indexer that has returned false.
IncAgain ==
    /\ itpc = "exited"
    /\ Len(rets) < Product(it.m_sizes) + MaxCalls
    /\ LET next == IndexerInc(it)
       IN  /\ it' = next.ix
           /\ rets' = Append(rets, next.ret)
    /\ UNCHANGED << itpc, visited, filterVars >>

IndexerNext ==
    \/ LoopBody
    \/ LoopCond
    \/ IncAgain

\* The loop is sequential code: its body and its condition always take their
\* step.  Further calls after the exit are the caller's choice.
IndexerSpec ==
    IndexerInit /\ [][IndexerNext]_vars /\ WF_vars(LoopBody \/ LoopCond)

\* ------------------------------------------------------ reference notions
\* Coordinate number k (from 0) of the box sz in mixed-radix order, axis 1 of
\* the sequence (axis 0 of the source) least significant.
Coord(k, sz) ==
    [i \in 1..Len(sz) |-> (k \div Product(SubSeq(sz, 1, i - 1))) % sz[i]]

AllCoords(sz) == {Coord(k, sz) : k \in 0..(Product(sz) - 1)}

\* The aggregates after the first n window coordinates of home element hix in
\* batch bb, accumulated from zero.
RECURSIVE WindowFold(_, _, _)
WindowFold(bb, hix, n) ==
    IF n = 0
    THEN [vs |-> [i \in 1..ChannelCount(sizes) |-> 0], ws |-> 0]
    ELSE LET prev == WindowFold(bb, hix, n - 1)
             kix == [Indexer(Len(kernelSize), kernelSize)
                        EXCEPT !.m_index = Coord(n - 1, kernelSize)]
             ho == HomeOffset(bb, hix)
             no == NeighbourOffset(bb, hix, kix, halfWindowSize)
             tw == TotalWeight(ho, no, kix, gaussianKernel, colorExpConstant)
         IN  [vs |-> [i \in 1..ChannelCount(sizes) |->
                        FAdd(prev.vs[i],
                             FMul(ReadInput(no + (i - 1) * ChannelStride(strides)),
                                  tw))],
              ws |-> FAdd(prev.ws, tw)]

\* The value the filter defines for channel c of home element x in batch bb.
Filtered(bb, c, x) ==
    LET hix == [Indexer(Len(x), SpatialDimensionSizes(sizes)) EXCEPT !.m_index = x]
        f == WindowFold(bb, hix, Product(kernelSize))
    IN  FDiv(f.vs[c + 1], f.ws)

SinglePixel == \A i \in 3..Len(sizes) : sizes[i] = 1
InWindowLoop == win.steps > 0 /\ ~win.done

\* ------------------------------------------------------------------ claims

\* C1: for every i in [0, windowSize) the exponent built for gaussianKernel[i]
\* is the squared offset (i - halfWindowSize)^2 times spatialExpConstant, so it
\* is <= 0 and the table holds exp of it.
C1_KernelUsesSquaredOffset ==
    pc \notin {"start", "none"} =>
        \A i \in 0..(windowSize - 1) :
            LET distance == i - halfWindowSize
                squared == FMul(ToFloat(distance * distance), spatialExpConstant)
            IN  /\ GaussianArg(i, halfWindowSize, spatialExpConstant) = squared
                /\ GaussianArg(i, halfWindowSize, spatialExpConstant) <= 0
                /\ gaussianKernel[i + 1] = Exp(squared)

\* C2: every neighbour coordinate used lies in [0, size-1] on its axis and is
\* the clamped candidate, and every input read of the window step addresses
\* an element of the home element's batch inside the input storage.
C2_NeighbourInBounds ==
    InWindowLoop =>
        /\ \A i \in 1..SpatialDimensionCount(sizes) :
              /\ win.nbr[i] \in 0..(SpatialDimensionSizes(sizes)[i] - 1)
              /\ win.raw[i] \in 0..(SpatialDimensionSizes(sizes)[i] - 1)
                    => win.nbr[i] = win.raw[i]
              /\ win.raw[i] < 0 => win.nbr[i] = 0
              /\ win.raw[i] >= SpatialDimensionSizes(sizes)[i]
                    => win.nbr[i] = SpatialDimensionSizes(sizes)[i] - 1
        /\ win.reads \subseteq DOMAIN inputData
        /\ win.reads \subseteq
              {ElemOffset(strides, b, c, x) :
                  c \in 0..(ChannelCount(sizes) - 1),
                  x \in AllCoords(SpatialDimensionSizes(sizes))}

\* C2 witness: in the second batch a candidate coordinate fell outside the
\* axis and was clamped.
C2_Witness ==
    /\ InWindowLoop
    /\ b = 1
    /\ \E i \in 1..SpatialDimensionCount(sizes) :
          win.raw[i] \notin 0..(SpatialDimensionSizes(sizes)[i] - 1)

\* C3: when the window loop has ended, the window coordinate with every
\* component halfWindowSize was visited, it addressed the home element and
\* weighed exactly 1, no neighbour weighed less than 0, and weightSum >= 1,
\* so the division has a non-zero divisor.
C3_WeightSumAtLeastOne ==
    pc = "write" =>
        /\ win.selfWeight = One
        /\ win.selfOffset = homeOffset
        /\ win.minWeight >= 0
        /\ weightSum >= One
        /\ \A i \in 1..ChannelCount(sizes) :
              FDiv(valueSum[i], weightSum) # NotFinite

\* C3 witness: a window of several neighbours has ended with weightSum > 1.
C3_Witness ==
    /\ pc = "write"
    /\ win.steps > 1
    /\ weightSum > One

\* C4 (as claimed): the value written for channel c lies between the minimum
\* and the maximum of the channel-c values of the neighbours visited.
C4_OutputWithinNeighbourhood ==
    win.done =>
        \A i \in 1..ChannelCount(sizes) :
            win.lo[i] <= win.out[i] /\ win.out[i] <= win.hi[i]

\* C4 (amended): the value written is the rounded quotient of the rounded sums
\* with weightSum >= 1; it lies between the minimum and the maximum of the
\* neighbourhood when the window has one neighbour (windowSize = 1), and it is
\* >= 0 (<= 0) when every neighbourhood value is >= 0 (<= 0).
C4_OutputWithinNeighbourhoodUpToRounding ==
    win.done =>
        /\ weightSum >= One
        /\ \A i \in 1..ChannelCount(sizes) :
              /\ windowSize = 1 =>
                    (win.lo[i] <= win.out[i] /\ win.out[i] <= win.hi[i])
              /\ win.lo[i] >= 0 => win.out[i] >= 0
              /\ win.hi[i] <= 0 => win.out[i] <= 0

\* C4 witness: a value was written from a window of several neighbours whose
\* values differ and are all >= 0.
C4_Witness ==
    /\ win.done
    /\ win.steps > 1
    /\ win.lo[1] >= 0
    /\ win.lo[1] < win.hi[1]
    /\ win.out[1] > 0

\* C5: no store goes outside the output storage, the input storage keeps its
\* contents, and on return every logical element (b, c, x) of the output has
\* been stored to exactly once, with the filtered value of that element.
C5_OutputFullyWritten ==
    /\ stray = {}
    /\ pc \notin {"none"} =>
          inputData = InputData(cfg.layout, sizes, cfg.seed, cfg.step)
    /\ pc = "done" =>
          \A bb \in 0..(BatchCount(sizes) - 1),
             c \in 0..(ChannelCount(sizes) - 1),
             x \in AllCoords(SpatialDimensionSizes(sizes)) :
                LET o == ElemOffset(outStrides, bb, c, x)
                IN  /\ written[o] = 1
                    /\ outputData[o] = Filtered(bb, c, x)

\* C6 (as claimed): when every spatial axis has size 1 the value written for
\* each (batch, channel) equals the input value.
C6_SinglePixelIdentity ==
    (SinglePixel /\ win.done) =>
        \A i \in 1..ChannelCount(sizes) :
            win.out[i] = ReadInput(homeOffset + (i - 1) * ChannelStride(strides))

\* C6 (amended): when every spatial axis has size 1 every neighbour clamps to
\* the home element itself, and the value written equals the input value when
\* windowSize = 1; for larger windows it is the rounded quotient of rounded
\* sums and equals the input only up to rounding.
C6_SinglePixelClampsToHome ==
    SinglePixel =>
        /\ win.steps > 0 =>
              /\ \A i \in 1..SpatialDimensionCount(sizes) : win.nbr[i] = 0
              /\ win.reads =
                    {homeOffset + i * ChannelStride(strides) :
                        i \in 0..(ChannelCount(sizes) - 1)}
        /\ (win.done /\ windowSize = 1) =>
              \A i \in 1..ChannelCount(sizes) :
                  win.out[i] =
                      ReadInput(homeOffset + (i - 1) * ChannelStride(strides))

\* C6 witness: a single-pixel input of two batches, a window of one
\* neighbour, a non-zero value written.
C6_Witness ==
    /\ SinglePixel
    /\ win.done
    /\ windowSize = 1
    /\ BatchCount(sizes) = 2
    /\ win.out[1] # 0

\* C8: the coordinate buffer of kernelIndex is live only inside the body of
\* the home loop, that of homeIndex only inside the body of the batch loop,
\* and on return the output tensor is the only live block of the call.
C8_BuffersReleased ==
    /\ heap["kernelIndex"] <= (IF pc \in {"window", "write"} THEN 1 ELSE 0)
    /\ heap["homeIndex"] <= (IF pc \in {"home", "window", "write"} THEN 1 ELSE 0)
    /\ pc = "done" => heap = [o \in Owners |-> IF o = "output" THEN 1 ELSE 0]

\* C9: when the window enumeration of a home element begins, every valueSum[c]
\* and weightSum are 0; so when it ends the aggregates are those accumulated
\* from zero over that home element's window alone.
C9_AggregatesStartAtZero ==
    /\ (pc = "window" /\ win.steps = 0) =>
          /\ valueSum = [i \in 1..ChannelCount(sizes) |-> 0]
          /\ weightSum = 0
    /\ pc = "write" =>
          LET f == WindowFold(b, homeIndex, Product(kernelSize))
          IN  valueSum = f.vs /\ weightSum = f.ws

\* C9 witness: a window enumeration begins after an earlier home element left
\* a non-zero value in the output.
C9_Witness ==
    /\ pc = "window"
    /\ win.steps = 0
    /\ \E o \in DOMAIN written : written[o] > 0 /\ outputData[o] # 0

\* C7: do { body } while (index++) runs the body for coordinate number 0, 1,
\* 2, ... of the box in mixed-radix order (axis 0 fastest) and for nothing
\* else, operator++ returns false on the call after the last coordinate and
\* true before, and the loop ends.
C7_LoopVisitsBoxInOrder ==
    /\ [](itpc \in {"body", "cond", "exited"} =>
            /\ Len(visited) <= Product(it.m_sizes)
            /\ \A k \in 1..Len(visited) : visited[k] = Coord(k - 1, it.m_sizes)
            /\ itpc = "body" => it.m_index = Coord(Len(visited), it.m_sizes)
            /\ itpc = "exited" =>
                  /\ Len(visited) = Product(it.m_sizes)
                  /\ \A k \in 1..Product(it.m_sizes) :
                        rets[k] = (k < Product(it.m_sizes)))
    /\ <>(itpc = "exited")

\* C7 witness: the loop over a box of two or more axes of size >= 2 has ended.
C7_Witness ==
    /\ itpc = "exited"
    /\ it.m_dimensions >= 2
    /\ \A i \in 1..it.m_dimensions : it.m_sizes[i] >= 2
    /\ Len(visited) = Product(it.m_sizes)

\* C10 (as claimed): once operator++ has returned false, every later call on
\* the same Indexer returns false.
C10_StaysExhausted ==
    \A i, j \in DOMAIN rets : (i < j /\ ~rets[i]) => ~rets[j]

\* C10 (amended): the call that returns false leaves the Indexer at the
\* all-zero coordinate, its initial state, so later calls enumerate the box
\* again: call number k returns false exactly when k is a multiple of the
\* number of coordinates.
C10_RestartsWhenExhausted ==
    itpc \in {"body", "cond", "exited"} =>
        /\ \A k \in DOMAIN rets : rets[k] = (k % Product(it.m_sizes) # 0)
        /\ itpc # "cond" =>
              it.m_index = Coord(Len(rets) % Product(it.m_sizes), it.m_sizes)
        /\ (Len(rets) > 0 /\ ~rets[Len(rets)]) =>
              it.m_index = Zeros(it.m_dimensions)

\* C10 witness: operator++ returned true after it had returned false.
C10_Witness ==
    /\ itpc = "exited"
    /\ \E i, j \in DOMAIN rets : i < j /\ ~rets[i] /\ rets[j]

====
